---- MODULE Spec2Model ----
(***************************************************************************)
(* wfemto, a toy text editor (src/src/main.rs).                            *)
(*                                                                         *)
(* The model covers the TextEditor struct and the key/text-input handlers  *)
(* of main()'s event loop, plus the cursor slice taken by the render step. *)
(* Rows and columns keep the code's zero-based values; a TLA+ sequence is  *)
(* one-based, so line r of the code is lines[r + 1] here.                  *)
(*                                                                         *)
(* A Rust String is a UTF-8 byte vector: len() counts bytes and insert,    *)
(* remove, truncate and slicing take byte offsets and panic on an offset   *)
(* that is out of range or not on a char boundary.  Strings are therefore  *)
(* modelled as sequences of bytes.  A panic ends the program: it is the    *)
(* flag `panicked`, after which no command is handled.                     *)
(*                                                                         *)
(* Not modelled: filename, cursor_visible/last_cursor_blink (only drawn),  *)
(* save() (prints only), quit, the splash screen and SDL drawing.          *)
(***************************************************************************)
EXTENDS Integers, Sequences, FiniteSets, TLC

VARIABLES lines, scr_col, scr_row, buffer_col, buffer_row,
          prev_cursor_x, prev_cursor_y, is_modified, mode, input_buffer,
          panicked, overflow_checks, events

vars == <<lines, scr_col, scr_row, buffer_col, buffer_row,
          prev_cursor_x, prev_cursor_y, is_modified, mode, input_buffer,
          panicked, overflow_checks, events>>

----------------------------------------------------------------------------
(* Program constants *)

EDITOR_COLS == 80

EDITOR_ROWS == 32

OPEN_FILE_MARGIN == 11

(* Bounds of the model *)

\* most lines the document is edited up to
MaxLines == 3

\* most bytes a document line is edited up to
MaxLen == 2

\* most bytes typed into the open-file prompt
MaxInput == 2

\* most lines of a file handed back by a load
MaxLoadLines == 1

\* most bytes of a line of such a file
MaxLoadLen == 1

\* most input events handled in a run
MaxEvents == 6

\* longest document of the scrolling specification
MaxDocLines == 40

\* longest run of insert_char / backspace tried from a state
MaxRun == 2

\* longest sequence of prompt commands tried between open and cancel
MaxPromptCmds == 2

----------------------------------------------------------------------------
(* Characters and UTF-8 strings *)

\* the characters a TextInput event delivers: one ASCII, one two-byte
Chars == {"a", "eacute"}

\* char::encode_utf8: 'a' is 61, e-acute is C3 A9
encode_utf8(c) == IF c = "a" THEN <<"61">> ELSE <<"C3", "A9">>

\* a continuation byte (10xxxxxx)
is_continuation(b) == b = "A9"

\* str::is_char_boundary(idx): 0 and len are boundaries, beyond len is not
is_char_boundary(s, idx) ==
    \/ idx = 0
    \/ idx = Len(s)
    \/ idx < Len(s) /\ ~is_continuation(s[idx + 1])

\* String::insert(idx, ch); the caller has checked is_char_boundary(s, idx)
String_insert(s, idx, c) ==
    SubSeq(s, 1, idx) \o encode_utf8(c) \o SubSeq(s, idx + 1, Len(s))

\* byte length of the char starting at the boundary idx < len
char_len_at(s, idx) == IF s[idx + 1] = "C3" THEN 2 ELSE 1

\* String::remove(idx) panics unless idx is a char boundary with a char after it
can_remove(s, idx) == idx < Len(s) /\ is_char_boundary(s, idx)

\* String::remove(idx); the caller has checked can_remove(s, idx)
String_remove(s, idx) ==
    SubSeq(s, 1, idx) \o SubSeq(s, idx + char_len_at(s, idx) + 1, Len(s))

Min(a, b) == IF a < b THEN a ELSE b

Max(a, b) == IF a > b THEN a ELSE b

----------------------------------------------------------------------------
(* The editor as a record, and the methods of TextEditor as operators *)

Ed == [lines |-> lines, scr_col |-> scr_col, scr_row |-> scr_row,
       buffer_col |-> buffer_col, buffer_row |-> buffer_row,
       prev_cursor_x |-> prev_cursor_x, prev_cursor_y |-> prev_cursor_y,
       is_modified |-> is_modified, mode |-> mode,
       input_buffer |-> input_buffer, panicked |-> panicked,
       overflow_checks |-> overflow_checks]

\* TextEditor::new(); debug is whether the build checks integer overflow
\* (the dev profile does, the release profile wraps)
new(debug) ==
    [lines |-> << <<>> >>, scr_col |-> 0, scr_row |-> 0,
     buffer_col |-> 0, buffer_row |-> 0,
     prev_cursor_x |-> 0, prev_cursor_y |-> 0,
     is_modified |-> FALSE, mode |-> "Edit",
     input_buffer |-> <<>>, panicked |-> FALSE,
     overflow_checks |-> debug]

\* a panic unwinds out of main: the editor state is dead from here on
Panic(e) == [e EXCEPT !.panicked = TRUE]

\* self.lines[self.buffer_row] is a checked index
valid_row(e) == e.buffer_row < Len(e.lines)

cur_line(e) == e.lines[e.buffer_row + 1]

insert_char(e, c) ==
    IF e.mode = "OpenFile"
    THEN \* scr_col - OPEN_FILE_MARGIN below zero: overflow panic when
         \* checked, else a wrapped position beyond len, which insert rejects
         IF e.scr_col < OPEN_FILE_MARGIN THEN Panic(e)
         ELSE LET pos == e.scr_col - OPEN_FILE_MARGIN IN
              IF ~is_char_boundary(e.input_buffer, pos) THEN Panic(e)
              ELSE [e EXCEPT !.input_buffer = String_insert(@, pos, c),
                             !.scr_col = @ + 1]
    ELSE IF ~valid_row(e) THEN Panic(e)
         ELSE IF ~is_char_boundary(cur_line(e), e.scr_col) THEN Panic(e)
         ELSE [e EXCEPT !.lines[e.buffer_row + 1] = String_insert(@, e.scr_col, c),
                        !.scr_col = @ + 1,
                        !.is_modified = TRUE]

backspace(e) ==
    IF e.scr_col > 0
    THEN IF ~valid_row(e) THEN Panic(e)
         ELSE IF ~can_remove(cur_line(e), e.scr_col - 1) THEN Panic(e)
         ELSE [e EXCEPT !.lines[e.buffer_row + 1] = String_remove(@, e.scr_col - 1),
                        !.scr_col = @ - 1,
                        !.is_modified = TRUE]
    ELSE IF e.buffer_row > 0
    THEN \* Vec::remove(buffer_row) is a checked index
         IF ~valid_row(e) THEN Panic(e)
         ELSE LET current_line == cur_line(e)
                  prev == e.lines[e.buffer_row]
              IN [e EXCEPT !.lines = SubSeq(e.lines, 1, e.buffer_row - 1)
                                     \o << prev \o current_line >>
                                     \o SubSeq(e.lines, e.buffer_row + 2, Len(e.lines)),
                           !.buffer_row = @ - 1,
                           !.scr_col = Len(prev),
                           !.is_modified = TRUE]
    ELSE e

backspace_buffer(e, offset) ==
    IF Len(e.input_buffer) = 0 \/ e.scr_col = offset THEN e
    ELSE IF e.scr_col < offset
    THEN \* scr_col - offset - 1 below zero: overflow panic when checked,
         \* else it wraps beyond len and nothing is removed
         IF e.overflow_checks THEN Panic(e) ELSE e
    ELSE LET buffer_pos == e.scr_col - offset - 1 IN
         IF buffer_pos <= Len(e.input_buffer)
         THEN IF ~can_remove(e.input_buffer, buffer_pos) THEN Panic(e)
              ELSE [e EXCEPT !.input_buffer = String_remove(@, buffer_pos),
                             !.scr_col = @ - 1]
         ELSE e

insert_newline(e) ==
    IF ~valid_row(e) THEN Panic(e)
    \* current_line[scr_col..] is a checked slice
    ELSE IF ~is_char_boundary(cur_line(e), e.scr_col) THEN Panic(e)
    ELSE LET rest_of_line == SubSeq(cur_line(e), e.scr_col + 1, Len(cur_line(e)))
             truncated == SubSeq(cur_line(e), 1, e.scr_col)
         IN [e EXCEPT !.lines = SubSeq(e.lines, 1, e.buffer_row)
                                \o << truncated, rest_of_line >>
                                \o SubSeq(e.lines, e.buffer_row + 2, Len(e.lines)),
                      !.buffer_row = @ + 1,
                      !.scr_row = Min(@ + 1, EDITOR_ROWS - 1),
                      !.scr_col = 0,
                      !.is_modified = TRUE]

move_cursor_left(e) ==
    IF e.mode = "OpenFile"
    THEN IF e.scr_col < OPEN_FILE_MARGIN
         THEN \* scr_col - OPEN_FILE_MARGIN below zero: overflow panic when
              \* checked, else it wraps to a value > 0 and scr_col -= 1 wraps too
              IF e.overflow_checks THEN Panic(e)
              ELSE [e EXCEPT !.scr_col = IF @ > 0 THEN @ - 1 ELSE 2^64 - 1]
         ELSE IF e.scr_col - OPEN_FILE_MARGIN > 0
              THEN [e EXCEPT !.scr_col = @ - 1]
              ELSE e
    ELSE IF e.scr_col > 0 THEN [e EXCEPT !.scr_col = @ - 1]
    ELSE IF e.scr_row > 0
    THEN \* buffer_row -= 1 at row 0: overflow panic when checked, else the
         \* wrapped row fails the index check of self.lines[self.buffer_row]
         IF e.buffer_row = 0 \/ e.buffer_row - 1 >= Len(e.lines) THEN Panic(e)
         ELSE [e EXCEPT !.buffer_row = @ - 1,
                        !.scr_col = Len(e.lines[e.buffer_row])]
    ELSE e

\* move_cursor_right whose prompt branch tests <= instead of <
move_cursor_right_PastEnd(e) ==
    IF e.mode = "OpenFile"
    THEN IF e.scr_col <= Len(e.input_buffer) + OPEN_FILE_MARGIN
         THEN [e EXCEPT !.scr_col = @ + 1]
         ELSE e
    ELSE IF ~valid_row(e) THEN Panic(e)
    ELSE IF e.buffer_col < Len(cur_line(e))
    THEN [e EXCEPT !.buffer_col = @ + 1,
                   !.scr_col = IF @ < EDITOR_COLS - 1 THEN @ + 1 ELSE @]
    ELSE IF e.buffer_row < Len(e.lines) - 1
    THEN [e EXCEPT !.buffer_row = @ + 1, !.buffer_col = 0, !.scr_col = 0]
    ELSE e

move_cursor_right(e) ==
    IF e.mode = "OpenFile"
    THEN IF e.scr_col < Len(e.input_buffer) + OPEN_FILE_MARGIN
         THEN [e EXCEPT !.scr_col = @ + 1]
         ELSE e
    \* println!("{}", self.lines[self.buffer_row].len()) indexes first
    ELSE IF ~valid_row(e) THEN Panic(e)
    ELSE IF e.buffer_col < Len(cur_line(e))
    THEN [e EXCEPT !.buffer_col = @ + 1,
                   !.scr_col = IF @ < EDITOR_COLS - 1 THEN @ + 1 ELSE @]
    ELSE IF e.buffer_row < Len(e.lines) - 1
    THEN [e EXCEPT !.buffer_row = @ + 1, !.buffer_col = 0, !.scr_col = 0]
    ELSE e

\* move_cursor_up without the hold at row 5: the screen row always follows
move_cursor_up_NoHold(e) ==
    LET moved ==
            IF e.buffer_row > 0
            THEN IF e.buffer_row - 1 >= Len(e.lines) THEN Panic(e)
                 ELSE [e EXCEPT !.buffer_row = @ - 1,
                                !.scr_col = Min(@, Len(e.lines[e.buffer_row]))]
            ELSE e
    IN IF moved.panicked THEN moved
       ELSE IF moved.scr_row > 0
       THEN [moved EXCEPT !.scr_row = @ - 1]
       ELSE moved

move_cursor_up(e) ==
    LET moved ==
            IF e.buffer_row > 0
            THEN IF e.buffer_row - 1 >= Len(e.lines) THEN Panic(e)
                 ELSE [e EXCEPT !.buffer_row = @ - 1,
                                !.scr_col = Min(@, Len(e.lines[e.buffer_row]))]
            ELSE e
    IN IF moved.panicked THEN moved
       ELSE IF moved.scr_row > 0 /\ ~(moved.scr_row = 5 /\ moved.buffer_row > 5)
       THEN [moved EXCEPT !.scr_row = @ - 1]
       ELSE moved

\* move_cursor_down without the hold at row ROWS - 5: the screen row always
\* follows down to the last window row
move_cursor_down_NoHold(e) ==
    IF Len(e.lines) = 0 THEN Panic(e)
    ELSE IF e.buffer_row = Len(e.lines) - 1 THEN e
    ELSE LET moved == [e EXCEPT !.buffer_row = @ + 1,
                                !.scr_col = Min(@, Len(e.lines[e.buffer_row + 2]))]
         IN IF moved.scr_row < EDITOR_ROWS - 1
            THEN [moved EXCEPT !.scr_row = @ + 1]
            ELSE moved

\* move_cursor_down with the bottom-edge test off by one (rows instead of rows - 1)
move_cursor_down_EdgeOffByOne(e) ==
    IF Len(e.lines) = 0 THEN Panic(e)
    ELSE IF e.buffer_row = Len(e.lines) - 1 THEN e
    ELSE LET moved == [e EXCEPT !.buffer_row = @ + 1,
                                !.scr_col = Min(@, Len(e.lines[e.buffer_row + 2]))]
         IN IF moved.scr_row < EDITOR_ROWS
               /\ ~(moved.scr_row = EDITOR_ROWS - 5
                    /\ moved.buffer_row < Len(moved.lines) - 5)
            THEN [moved EXCEPT !.scr_row = @ + 1]
            ELSE moved

move_cursor_down(e) ==
    \* self.lines.len() - 1 on an empty Vec: overflow panic when checked,
    \* else it wraps, buffer_row becomes 1 and self.lines[1] fails its index check
    IF Len(e.lines) = 0 THEN Panic(e)
    ELSE IF e.buffer_row = Len(e.lines) - 1 THEN e
    ELSE LET moved ==
                 IF e.buffer_row < Len(e.lines) - 1
                 THEN [e EXCEPT !.buffer_row = @ + 1,
                                !.scr_col = Min(@, Len(e.lines[e.buffer_row + 2]))]
                 ELSE e
             bm == EDITOR_ROWS - 5
         IN IF moved.scr_row < EDITOR_ROWS - 1
            THEN IF moved.scr_row = bm
                 THEN \* self.lines.len() - 5 below zero: overflow panic when
                      \* checked, else it wraps above every row and the test holds
                      IF Len(moved.lines) < 5
                      THEN IF moved.overflow_checks THEN Panic(moved) ELSE moved
                      ELSE IF moved.buffer_row < Len(moved.lines) - 5
                           THEN moved
                           ELSE [moved EXCEPT !.scr_row = @ + 1]
                 ELSE [moved EXCEPT !.scr_row = @ + 1]
            ELSE moved

(* What the file system answers to load(filename):                          *)
(*   open_err  File::open fails                                             *)
(*   ok        every line is read; new_lines are the file's lines           *)
(*   read_err  reader.lines() yields an Err after new_lines were pushed     *)
load_result(outcome) == IF outcome.kind = "ok" THEN "Ok" ELSE "Err"

load(e, outcome) ==
    IF outcome.kind = "open_err" THEN e
    ELSE IF outcome.kind = "read_err"
    THEN [e EXCEPT !.lines = outcome.new_lines]
    ELSE [e EXCEPT !.lines = outcome.new_lines,
                   !.scr_col = 0,
                   !.scr_row = 0,
                   !.buffer_row = 0,
                   !.is_modified = FALSE]

\* Keycode::Return leaving the prompt only when the load succeeded
key_return_StayOnError(e, outcome) ==
    IF e.mode = "Edit" THEN insert_newline(e)
    ELSE IF load_result(outcome) = "Ok"
         THEN [load(e, outcome) EXCEPT !.mode = "Edit"]
         ELSE load(e, outcome)

\* Keycode::Return
key_return(e, outcome) ==
    IF e.mode = "Edit" THEN insert_newline(e)
    ELSE [load(e, outcome) EXCEPT !.mode = "Edit"]

\* Keycode::Backspace
key_backspace(e) ==
    IF e.mode = "Edit" THEN backspace(e)
    ELSE backspace_buffer(e, OPEN_FILE_MARGIN)

\* Keycode::Up
key_up(e) == IF e.mode = "Edit" THEN move_cursor_up(e) ELSE e

\* Keycode::Down
key_down(e) == IF e.mode = "Edit" THEN move_cursor_down(e) ELSE e

\* Keycode::O that opens the prompt on whatever input_buffer still holds
key_ctrl_o_KeepBuffer(e) ==
    IF e.mode # "OpenFile"
    THEN [e EXCEPT !.mode = "OpenFile",
                   !.prev_cursor_x = e.scr_col,
                   !.prev_cursor_y = e.scr_row,
                   !.scr_col = OPEN_FILE_MARGIN,
                   !.scr_row = EDITOR_ROWS]
    ELSE e

\* Keycode::O with a control modifier
key_ctrl_o(e) ==
    IF e.mode # "OpenFile"
    THEN [e EXCEPT !.mode = "OpenFile",
                   !.input_buffer = <<>>,
                   !.prev_cursor_x = e.scr_col,
                   !.prev_cursor_y = e.scr_row,
                   !.scr_col = OPEN_FILE_MARGIN,
                   !.scr_row = EDITOR_ROWS]
    ELSE e

\* Keycode::Home
key_home(e) ==
    IF e.mode = "Edit" THEN [e EXCEPT !.scr_col = 0]
    ELSE [e EXCEPT !.scr_col = OPEN_FILE_MARGIN]

\* Keycode::End
key_end(e) ==
    IF e.mode = "Edit"
    THEN IF ~valid_row(e) THEN Panic(e)
         ELSE [e EXCEPT !.scr_col = Len(cur_line(e))]
    ELSE [e EXCEPT !.scr_col = Len(e.input_buffer) + OPEN_FILE_MARGIN]

\* Keycode::Escape
key_escape(e) ==
    [e EXCEPT !.mode = "Edit",
              !.scr_col = e.prev_cursor_x,
              !.scr_row = e.prev_cursor_y]

\* the cursor part of a frame: the text before the cursor is a checked slice,
\* taken only while the blinking cursor is shown
render(e, cursor_visible) ==
    IF ~cursor_visible THEN e
    ELSE IF e.mode = "OpenFile"
    THEN IF e.scr_col < OPEN_FILE_MARGIN
            \/ ~is_char_boundary(e.input_buffer, e.scr_col - OPEN_FILE_MARGIN)
         THEN Panic(e) ELSE e
    ELSE IF ~valid_row(e) \/ ~is_char_boundary(cur_line(e), e.buffer_col)
         THEN Panic(e) ELSE e

\* the rows drawn by a frame: buffer_start..buffer_end
buffer_start(e) == Max(e.buffer_row - e.scr_row, 0)

buffer_end(e) == Min(buffer_start(e) + EDITOR_ROWS, Len(e.lines))

----------------------------------------------------------------------------
(* The environment *)

RECURSIVE StringsOfLen(_)
\* the UTF-8 strings of exactly n bytes over Chars
StringsOfLen(n) ==
    IF n = 0 THEN { <<>> }
    ELSE UNION { { s \o encode_utf8(c) : s \in StringsOfLen(n - Len(encode_utf8(c))) }
                 : c \in { d \in Chars : Len(encode_utf8(d)) <= n } }

Strings(n) == UNION { StringsOfLen(k) : k \in 0..n }

\* the files a load can read: up to MaxLoadLines lines of up to MaxLoadLen bytes
LoadDocs == UNION { [1..k -> Strings(MaxLoadLen)] : k \in 0..MaxLoadLines }

\* File::open("") always fails; any other path may name any file, a directory,
\* a file that is not UTF-8, or nothing
LoadOutcomes(filename) ==
    { [kind |-> "open_err", new_lines |-> <<>>] }
    \cup (IF Len(filename) = 0 THEN {}
          ELSE { [kind |-> k, new_lines |-> d] : k \in {"ok", "read_err"}, d \in LoadDocs })

\* the model's bound on what an edit may grow
Bounded(e) ==
    /\ Len(e.lines) <= MaxLines
    /\ \A i \in 1..Len(e.lines) : Len(e.lines[i]) <= MaxLen
    /\ Len(e.input_buffer) <= MaxInput

----------------------------------------------------------------------------
(* The state machine: one action per event of main()'s loop *)

Set(e) ==
    /\ lines' = e.lines
    /\ scr_col' = e.scr_col
    /\ scr_row' = e.scr_row
    /\ buffer_col' = e.buffer_col
    /\ buffer_row' = e.buffer_row
    /\ prev_cursor_x' = e.prev_cursor_x
    /\ prev_cursor_y' = e.prev_cursor_y
    /\ is_modified' = e.is_modified
    /\ mode' = e.mode
    /\ input_buffer' = e.input_buffer
    /\ panicked' = e.panicked
    /\ overflow_checks' = e.overflow_checks

\* the state is the record e
Is(e) ==
    /\ lines = e.lines
    /\ scr_col = e.scr_col
    /\ scr_row = e.scr_row
    /\ buffer_col = e.buffer_col
    /\ buffer_row = e.buffer_row
    /\ prev_cursor_x = e.prev_cursor_x
    /\ prev_cursor_y = e.prev_cursor_y
    /\ is_modified = e.is_modified
    /\ mode = e.mode
    /\ input_buffer = e.input_buffer
    /\ panicked = e.panicked
    /\ overflow_checks = e.overflow_checks

\* one more event of event_pump.poll_iter() is handled
Handled == ~panicked /\ events < MaxEvents /\ events' = events + 1

Init == events = 0 /\ \E debug \in BOOLEAN : Is(new(debug))

TextInput == Handled /\ \E c \in Chars :
                 LET e == insert_char(Ed, c) IN Bounded(e) /\ Set(e)

KeyReturn == Handled /\ \E outcome \in LoadOutcomes(input_buffer) :
                 LET e == key_return(Ed, outcome) IN Bounded(e) /\ Set(e)

KeyBackspace == Handled /\ Set(key_backspace(Ed))

KeyLeft == Handled /\ Set(move_cursor_left(Ed))

KeyRight == Handled /\ Set(move_cursor_right(Ed))

KeyUp == Handled /\ Set(key_up(Ed))

KeyDown == Handled /\ Set(key_down(Ed))

KeyCtrlO == Handled /\ Set(key_ctrl_o(Ed))

KeyHome == Handled /\ Set(key_home(Ed))

KeyEnd == Handled /\ Set(key_end(Ed))

KeyEscape == Handled /\ Set(key_escape(Ed))

Render == ~panicked /\ UNCHANGED events
          /\ \E cursor_visible \in BOOLEAN : Set(render(Ed, cursor_visible))

Next ==
    \/ TextInput
    \/ KeyReturn
    \/ KeyBackspace
    \/ KeyLeft
    \/ KeyRight
    \/ KeyUp
    \/ KeyDown
    \/ KeyCtrlO
    \/ KeyHome
    \/ KeyEnd
    \/ KeyEscape
    \/ Render

Spec == Init /\ [][Next]_vars

----------------------------------------------------------------------------
(* The match of main()'s event loop as one operator, for runs of events *)

\* one Event::TextInput char or Event::KeyDown keycode; a panicked program
\* handles nothing more
handle(e, ev) ==
    IF e.panicked THEN e
    ELSE CASE ev.key = "TextInput" -> insert_char(e, ev.c)
           [] ev.key = "Return"    -> key_return(e, ev.outcome)
           [] ev.key = "Backspace" -> key_backspace(e)
           [] ev.key = "Left"      -> move_cursor_left(e)
           [] ev.key = "Right"     -> move_cursor_right(e)
           [] ev.key = "Up"        -> key_up(e)
           [] ev.key = "Down"      -> key_down(e)
           [] ev.key = "CtrlO"     -> key_ctrl_o(e)
           [] ev.key = "Home"      -> key_home(e)
           [] ev.key = "End"       -> key_end(e)
           [] ev.key = "Escape"    -> key_escape(e)

RECURSIVE run(_, _)
\* the events of the sequence evs handled in order, starting from e
run(e, evs) ==
    IF Len(evs) = 0 THEN e ELSE run(handle(e, Head(evs)), Tail(evs))

Key(k) == [key |-> k]

Text(c) == [key |-> "TextInput", c |-> c]

Return(outcome) == [key |-> "Return", outcome |-> outcome]

\* the sequences of at most n elements of S
SeqsUpTo(S, n) == UNION { [1..k -> S] : k \in 0..n }

----------------------------------------------------------------------------
(* The scrolling specification: a loaded document and vertical moves alone *)

\* a file of n lines, every second one empty
ScrollDoc(n) == [i \in 1..n |-> IF i % 2 = 0 THEN <<"61">> ELSE <<>>]

\* the editor right after Ctrl+O, "a", Return loaded the file named a
loaded(debug, doc) ==
    run(new(debug), << Key("CtrlO"), Text("a"),
                       Return([kind |-> "ok", new_lines |-> doc]) >>)

InitScroll ==
    /\ events = 0
    /\ \E debug \in BOOLEAN, n \in 1..MaxDocLines : Is(loaded(debug, ScrollDoc(n)))

\* Keycode::Up and Keycode::Down, any number of them
ScrollUp == ~panicked /\ UNCHANGED events /\ Set(key_up(Ed))

ScrollDown == ~panicked /\ UNCHANGED events /\ Set(key_down(Ed))

NextScroll ==
    \/ ScrollUp
    \/ ScrollDown

SpecScroll == InitScroll /\ [][NextScroll]_vars

----------------------------------------------------------------------------
(* Claims *)

\* C1: in every reachable state the document holds at least one line, and
\* confirming a load of a file of zero lines leaves exactly one empty line.
C1_AtLeastOneLine ==
    /\ Len(lines) >= 1
    /\ (mode = "OpenFile" /\ ~panicked /\ Len(input_buffer) > 0) =>
           key_return(Ed, [kind |-> "ok", new_lines |-> <<>>]).lines = << <<>> >>

\* C2: in every reachable state the logical cursor is in bounds:
\* buffer_row < len(lines) and buffer_col <= len(lines[buffer_row]).
C2_CursorInBounds ==
    /\ buffer_row >= 0
    /\ buffer_row < Len(lines)
    /\ buffer_col >= 0
    /\ buffer_col <= Len(lines[buffer_row + 1])

\* C3: whenever insert_char, backspace or insert_newline is applied in Edit
\* mode, buffer_row indexes an existing line and the edit column scr_col is at
\* most that line's length.
C3_EditColumnInBounds ==
    [][(mode = "Edit" /\ (TextInput \/ KeyBackspace \/ KeyReturn))
           => (buffer_row < Len(lines) /\ scr_col <= Len(lines[buffer_row + 1]))]_vars

\* C4: in every reachable Edit-mode state scr_row is within [0, ROWS-1] and
\* buffer_row - scr_row >= 0.
C4_ScreenRowInWindow ==
    mode = "Edit" =>
        /\ scr_row >= 0
        /\ scr_row <= EDITOR_ROWS - 1
        /\ buffer_row - scr_row >= 0

\* C5: from a loaded document with the cursor at buffer_row = 0, scr_row = 0,
\* after any sequence of move_up and move_down alone, buffer_row - scr_row >= 0
\* and scr_row is within [0, ROWS-1] (and no move panicked).
C5_ScrollInvariant ==
    /\ buffer_row - scr_row >= 0
    /\ scr_row >= 0
    /\ scr_row <= EDITOR_ROWS - 1
    /\ ~panicked

\* C5 witness: the window has scrolled and the cursor sits on the last
\* screen row, on the last line of a document longer than the window.
C5_Witness ==
    /\ scr_row = EDITOR_ROWS - 1
    /\ buffer_row > scr_row
    /\ buffer_row = Len(lines) - 1

\* C6: from every Edit-mode state, n insert_char followed by n backspace, for
\* every n and every n characters, give back the same lines and the same
\* (buffer_row, buffer_col).
C6_InsertBackspaceRoundTrip ==
    (mode = "Edit" /\ ~panicked) =>
        \A cs \in SeqsUpTo(Chars, MaxRun) :
            LET evs == [i \in 1..(2 * Len(cs)) |->
                           IF i <= Len(cs) THEN Text(cs[i]) ELSE Key("Backspace")]
                r == run(Ed, evs)
            IN /\ ~r.panicked
               /\ r.lines = lines
               /\ r.buffer_row = buffer_row
               /\ r.buffer_col = buffer_col

\* C7: from every Edit-mode state, insert_newline followed at once by
\* backspace gives back the same lines and the same (buffer_row, buffer_col).
C7_NewlineBackspaceRoundTrip ==
    (mode = "Edit" /\ ~panicked) =>
        LET r == run(Ed, << Return([kind |-> "open_err", new_lines |-> <<>>]),
                            Key("Backspace") >>)
        IN /\ ~r.panicked
           /\ r.lines = lines
           /\ r.buffer_row = buffer_row
           /\ r.buffer_col = buffer_col

\* C8: from an interior row in Edit mode, move_up then move_down returns to
\* the same (buffer_row, buffer_col), except that a column beyond the end of
\* the line above comes back as min(original column, len(final row)).
C8_UpDownRoundTrip ==
    (mode = "Edit" /\ ~panicked /\ 0 < buffer_row /\ buffer_row < Len(lines) - 1) =>
        LET r == run(Ed, << Key("Up"), Key("Down") >>)
            clamped == buffer_col > Len(lines[buffer_row])
        IN /\ ~r.panicked
           /\ r.buffer_row = buffer_row
           /\ r.buffer_col = IF clamped
                             THEN Min(buffer_col, Len(r.lines[r.buffer_row + 1]))
                             ELSE buffer_col

\* the prompt-mode commands other than confirm and cancel
PromptCmds ==
    { Text(c) : c \in Chars }
    \cup { Key(k) : k \in {"Backspace", "Left", "Right", "Up", "Down",
                          "Home", "End", "CtrlO"} }

\* C9: from every Edit-mode state, open-prompt, any prompt commands other than
\* confirm, then cancel leave lines, buffer_row and is_modified unchanged and
\* restore scr_col and scr_row to their values at prompt entry.
C9_PromptCancelRestores ==
    (mode = "Edit" /\ ~panicked) =>
        \A cmds \in SeqsUpTo(PromptCmds, MaxPromptCmds) :
            LET r == run(Ed, << Key("CtrlO") >> \o cmds \o << Key("Escape") >>)
            IN /\ ~r.panicked
               /\ r.mode = "Edit"
               /\ r.lines = lines
               /\ r.buffer_row = buffer_row
               /\ r.is_modified = is_modified
               /\ r.scr_col = scr_col
               /\ r.scr_row = scr_row

\* C10: a load that fails, at the open or after some lines were read, leaves
\* the document lines exactly as they were.
C10_FailedLoadKeepsLines ==
    (mode = "OpenFile" /\ ~panicked) =>
        \A outcome \in LoadOutcomes(input_buffer) :
            load_result(outcome) = "Err" => load(Ed, outcome).lines = lines

\* C11: a successful load, from any prior state, leaves the document equal to
\* the loaded lines, the mode Edit and the cursor at (0,0) in both coordinate
\* systems: buffer_row = buffer_col = scr_row = scr_col = 0.
C11_LoadResetsCursor ==
    (mode = "OpenFile" /\ ~panicked) =>
        \A outcome \in LoadOutcomes(input_buffer) :
            load_result(outcome) = "Ok" =>
                LET r == key_return(Ed, outcome)
                IN /\ r.lines = outcome.new_lines
                   /\ r.mode = "Edit"
                   /\ r.buffer_row = 0
                   /\ r.buffer_col = 0
                   /\ r.scr_row = 0
                   /\ r.scr_col = 0

\* C12: in OpenFile mode the confirm command leaves the mode Edit in the next
\* state whether the load succeeds or fails, and the mode changes only from
\* Edit to OpenFile on the open command and from OpenFile to Edit on confirm
\* or cancel.
C12_ModeTransitions ==
    [][/\ (mode = "OpenFile" /\ KeyReturn) => mode' = "Edit"
       /\ mode' # mode =>
              \/ mode = "Edit" /\ mode' = "OpenFile" /\ KeyCtrlO
              \/ mode = "OpenFile" /\ mode' = "Edit" /\ (KeyReturn \/ KeyEscape)]_vars

\* C12 witness: the editor is back in Edit mode after a confirm whose load
\* failed (the cursor still sits on the prompt row).
C12_Witness ==
    /\ mode = "Edit"
    /\ scr_row = EDITOR_ROWS
    /\ Len(input_buffer) > 0
    /\ ~panicked

\* the events handled in Edit mode that do not open the prompt
EditCmds ==
    { Text(c) : c \in Chars }
    \cup { Return([kind |-> "open_err", new_lines |-> <<>>]) }
    \cup { Key(k) : k \in {"Backspace", "Left", "Right", "Up", "Down",
                          "Home", "End", "Escape"} }

\* C13 as stated: in every reachable Edit-mode state input_buffer is empty.
C13_PromptBufferEmptyInEdit ==
    mode = "Edit" => input_buffer = <<>>

\* C13 amended: input_buffer is empty initially and is emptied whenever the
\* prompt is entered; cancel and confirm do not clear it, and in Edit mode
\* what it still holds is neither read nor changed by any command but open.
C13_PromptBufferFreshAndUnused ==
    /\ events = 0 => input_buffer = <<>>
    /\ (mode = "Edit" /\ ~panicked) =>
           /\ key_ctrl_o(Ed).input_buffer = <<>>
           /\ \A ev \in EditCmds :
                  /\ handle(Ed, ev).input_buffer = input_buffer
                  /\ handle([Ed EXCEPT !.input_buffer = <<>>], ev)
                         = [handle(Ed, ev) EXCEPT !.input_buffer = <<>>]

\* C13 witness: Edit mode with the filename of the last prompt still in
\* input_buffer.
C13_Witness ==
    /\ mode = "Edit"
    /\ input_buffer # <<>>
    /\ ~panicked

\* C14: in every reachable OpenFile-mode state
\* OPEN_FILE_MARGIN <= scr_col <= OPEN_FILE_MARGIN + len(input_buffer), so the
\* insert position scr_col - margin is at most len and the removal position
\* scr_col - margin - 1 is below len.
C14_PromptColumnInRange ==
    mode = "OpenFile" =>
        /\ OPEN_FILE_MARGIN <= scr_col
        /\ scr_col <= OPEN_FILE_MARGIN + Len(input_buffer)
        /\ scr_col - OPEN_FILE_MARGIN <= Len(input_buffer)
        /\ scr_col # OPEN_FILE_MARGIN =>
               scr_col - OPEN_FILE_MARGIN - 1 < Len(input_buffer)

\* C14 witness: the prompt cursor stands inside a two-byte filename, after
\* typing and a move left.
C14_Witness ==
    /\ mode = "OpenFile"
    /\ OPEN_FILE_MARGIN < scr_col
    /\ scr_col < OPEN_FILE_MARGIN + Len(input_buffer)
    /\ ~panicked

\* C15: in Edit mode, move_down applied with scr_row at the bottom trigger row
\* ROWS - 5 and more than 5 lines below the cursor increases buffer_row by one
\* and leaves scr_row alone, so the first visible line buffer_row - scr_row
\* increases by exactly one.
C15_BottomHoldScrolls ==
    (mode = "Edit" /\ ~panicked /\ scr_row = EDITOR_ROWS - 5
        /\ Len(lines) - 1 - buffer_row > 5) =>
        LET r == key_down(Ed)
        IN /\ ~r.panicked
           /\ r.buffer_row = buffer_row + 1
           /\ r.scr_row = scr_row
           /\ r.buffer_row - r.scr_row = (buffer_row - scr_row) + 1

\* C15 witness: the cursor is held on the trigger row, the window has already
\* scrolled, and more than 5 lines are still below the cursor.
C15_Witness ==
    /\ mode = "Edit"
    /\ scr_row = EDITOR_ROWS - 5
    /\ buffer_row > scr_row
    /\ Len(lines) - 1 - buffer_row > 5
    /\ ~panicked

\* C16 as stated: after any moves up and down from the top of a loaded
\* document, scr_row < 5 implies the first visible line is line 0, and
\* scr_row > ROWS - 5 implies the last line is inside the visible slice.
C16_BandLeftOnlyAtExtremes ==
    /\ scr_row < 5 => buffer_start(Ed) = 0
    /\ scr_row > EDITOR_ROWS - 5 => buffer_end(Ed) = Len(lines)

\* C16 amended: after any moves up and down from the top of a loaded
\* document, scr_row < 5 implies that at most one line is above the visible
\* slice, and scr_row > ROWS - 5 implies that at most one line is below it.
C16_BandLeftNearExtremes ==
    /\ scr_row < 5 => buffer_start(Ed) <= 1
    /\ scr_row > EDITOR_ROWS - 5 => Len(lines) - buffer_end(Ed) <= 1

\* C16 witness: moving up released the hold one line early, the cursor is
\* above the band and line 0 is not visible.
C16_Witness ==
    /\ scr_row < 5
    /\ buffer_start(Ed) = 1
    /\ ~panicked

\* C17: in every reachable Edit-mode state the cursor's line is inside the
\* visible slice [buffer_start, buffer_end) and is drawn on the cursor's row:
\* buffer_row - buffer_start = scr_row.
C17_CursorLineVisible ==
    (mode = "Edit" /\ ~panicked) =>
        /\ buffer_start(Ed) <= buffer_row
        /\ buffer_row < buffer_end(Ed)
        /\ buffer_row - buffer_start(Ed) = scr_row

\* C18: in Edit mode, move_left at column 0 of a line with buffer_row > 0
\* moves to the end of the previous line (buffer_row one less, column the
\* length of that line, scr_row one less unless it was 0); at column 0 of
\* row 0 it changes nothing.
C18_LeftAtLineStart ==
    (mode = "Edit" /\ ~panicked /\ scr_col = 0 /\ valid_row(Ed)) =>
        LET r == move_cursor_left(Ed)
        IN IF buffer_row > 0
           THEN /\ ~r.panicked
                /\ r.buffer_row = buffer_row - 1
                /\ r.scr_col = Len(lines[buffer_row])
                /\ r.scr_row = IF scr_row > 0 THEN scr_row - 1 ELSE scr_row
           ELSE r = Ed

\* C19: in every reachable Edit-mode state whose current line is shorter than
\* the window width, scr_col equals buffer_col.
C19_ColumnsAgree ==
    (mode = "Edit" /\ ~panicked /\ valid_row(Ed)
        /\ Len(cur_line(Ed)) < EDITOR_COLS) =>
        scr_col = buffer_col

\* C20: Escape while the mode is already Edit leaves scr_col, scr_row,
\* buffer_row, buffer_col, lines and mode unchanged.
C20_EscapeInEditIsNoOp ==
    (mode = "Edit" /\ ~panicked) =>
        LET r == key_escape(Ed)
        IN /\ r.scr_col = scr_col
           /\ r.scr_row = scr_row
           /\ r.buffer_row = buffer_row
           /\ r.buffer_col = buffer_col
           /\ r.lines = lines
           /\ r.mode = mode

====
